---- MODULE Spec2Model ----
(***************************************************************************)
(* radiorus-rss: a programme listing page is turned into a feed.           *)
(*                                                                         *)
(* Byte strings are modelled as sequences of tokens.  A token is a record  *)
(* [k |-> kind, g |-> captured groups]: one stretch of markup that one of  *)
(* the program's patterns (regular expression or selector) matches, with   *)
(* the text its capture groups take.  Text that matters character by       *)
(* character (date fragments) is a sequence of one-character strings.      *)
(***************************************************************************)
EXTENDS Integers, Sequences, FiniteSets, TLC

VARIABLES
    url,        \* argument of processURL
    served,     \* what the listing fetch answers: [page, url] or "unreachable"
    pc,         \* position of the main goroutine in processURL
    feed,       \* the *feeds.Feed under construction
    err,        \* result of the last populateFeed call
    wg,         \* counter of processURL's WaitGroup
    wgEp,       \* counter of describeEpisodes' WaitGroup
    idx,        \* loop index of describeEpisodes (next item to launch)
    feedTask,   \* the describeFeed goroutine: [pc, page]
    epTask,     \* the describeEpisode goroutines, by item position: [pc, page]
    exited,     \* the process was terminated by log.Fatal
    logbuf,     \* lines written to the logger
    writes,     \* fields written during the concurrent phase: [by, obj, field]
    args,       \* arguments of the function under test (function harnesses)
    ret,        \* its result
    called      \* the function under test has been applied

vars == <<url, served, pc, feed, err, wg, wgEp, idx, feedTask, epTask,
          exited, logbuf, writes, args, ret, called>>

pipelineVars == <<url, served, pc, feed, err, wg, wgEp, idx, feedTask, epTask,
                  exited, logbuf, writes>>

harnessVars == <<args, ret, called>>

(***************************************************************************)
(* Bounds.                                                                 *)
(***************************************************************************)
MaxFrags == 6       \* longest fragment list handed to parseDate (after the whole match)
MaxBuf == 3         \* longest buffer handed to parse
MaxGroups == 2      \* most capture groups of a pattern handed to parse
MaxBlocks == 2      \* most episode blocks / cards on a listing page

\* a nil pointer / a value that does not exist yet
Nil == [nil |-> TRUE]

(***************************************************************************)
(* Sequence helpers.                                                       *)
(***************************************************************************)
RECURSIVE SeqsUpTo(_, _)
SeqsUpTo(S, n) ==
    IF n = 0 THEN {<<>>}
    ELSE LET shorter == SeqsUpTo(S, n - 1)
         IN  shorter \cup {Append(s, x) : s \in {t \in shorter : Len(t) = n - 1}, x \in S}

RECURSIVE Flatten(_)
Flatten(ss) == IF ss = <<>> THEN <<>> ELSE Head(ss) \o Flatten(Tail(ss))

(***************************************************************************)
(* strconv.Atoi on a sequence of characters.                               *)
(***************************************************************************)
Digits == {"0", "1", "2", "3", "4", "5", "6", "7", "8", "9"}

DigitVal(c) ==
    CASE c = "0" -> 0 [] c = "1" -> 1 [] c = "2" -> 2 [] c = "3" -> 3
      [] c = "4" -> 4 [] c = "5" -> 5 [] c = "6" -> 6 [] c = "7" -> 7
      [] c = "8" -> 8 [] c = "9" -> 9

RECURSIVE DigitsVal(_, _)
DigitsVal(s, acc) ==
    IF s = <<>> THEN acc ELSE DigitsVal(Tail(s), 10 * acc + DigitVal(Head(s)))

\* an optional sign followed by at least one digit, digits only
AtoiOK(s) ==
    /\ Len(s) > 0
    /\ LET body == IF s[1] \in {"+", "-"} THEN Tail(s) ELSE s
       IN  /\ Len(body) > 0
           /\ \A i \in 1..Len(body) : body[i] \in Digits

AtoiVal(s) ==
    IF s[1] = "-" THEN 0 - DigitsVal(Tail(s), 0)
    ELSE IF s[1] = "+" THEN DigitsVal(Tail(s), 0)
    ELSE DigitsVal(s, 0)

(***************************************************************************)
(* Timestamps.  time.Date is kept as the fields it was built from, in the  *)
(* fixed zone "Moscow Time" (UTC+3); ZeroTime is Go's unset time.Time.     *)
(***************************************************************************)
moscow == 3

TimeDate(y, m, d, h, mi) ==
    [year |-> y, month |-> m, day |-> d, hour |-> h, min |-> mi, zone |-> moscow]

Sentinel == TimeDate(1970, 1, 1, 0, 0)

ZeroTime == [year |-> 1, month |-> 1, day |-> 1, hour |-> 0, min |-> 0, zone |-> 0]

\* Time.IsZero: the instant is January 1, year 1, 00:00 UTC, whatever the
\* zone it is written in
IsZero(t) ==
    /\ t.year = 1 /\ t.month = 1 /\ t.day = 1
    /\ t.hour * 60 + t.min = t.zone * 60

\* the run-time panic of an out-of-range array index, which aborts the process
Panic == [panic |-> "index out of range [5] with length 5"]

(***************************************************************************)
(* parseDate: bytes[0] is the whole match, bytes[1:] the fragments.        *)
(* date is the [5]int array, indexed 1..5 here for Go's 0..4.              *)
(***************************************************************************)
RECURSIVE parseDateLoop(_, _, _)
parseDateLoop(frags, i, date) ==
    IF i > Len(frags)
    THEN TimeDate(date[3], date[2], date[1], date[4], date[5])
    ELSE IF ~AtoiOK(frags[i]) THEN Sentinel
    ELSE IF i > 5 THEN Panic
    ELSE parseDateLoop(frags, i + 1, [date EXCEPT ![i] = AtoiVal(frags[i])])

\* slip: the length test counts the fragments as if there were no whole match
parseDate_short(bytes) ==
    IF Len(bytes) < 5 THEN Sentinel
    ELSE parseDateLoop(Tail(bytes), 1, [j \in 1..5 |-> 0])

parseDate(bytes) ==
    IF Len(bytes) < 4 THEN Sentinel
    ELSE parseDateLoop(Tail(bytes), 1, [j \in 1..5 |-> 0])

(***************************************************************************)
(* Patterns and matching.  A pattern is [name, groups]; a token of kind    *)
(* name is a stretch of the buffer the pattern matches.  FindSubmatch      *)
(* returns <<>> when nothing matches, else the whole match followed by     *)
(* one entry per capture group of the pattern (empty for a group that      *)
(* took no part in the match).                                             *)
(***************************************************************************)
Re(name, n) == [name |-> name, groups |-> n]

programNameRe == Re("h2", 1)
programAboutRe == Re("anons", 1)
programImageRe == Re("promo", 4)
episodeTitleRe == Re("etitle", 1)
episodeUrlRe == Re("link", 1)
episodeAudioRe == Re("audio", 1)
episodeDateRe == Re("date", 5)

errBadEpisode == "bad episode"
errCantParse == "could not parse page"
errBadProgramme == "bad programme page: title not found"
nil == "nil"

Matches(src, re) == SelectSeq(src, LAMBDA t : t.k = re.name)

Submatch(t, re) ==
    <<t>> \o [i \in 1..re.groups |-> IF i <= Len(t.g) THEN t.g[i] ELSE <<>>]

FindSubmatch(src, re) ==
    LET ms == Matches(src, re)
    IN  IF ms = <<>> THEN <<>> ELSE Submatch(ms[1], re)

FindAllSubmatch(src, re) ==
    LET ms == Matches(src, re)
    IN  [i \in 1..Len(ms) |-> Submatch(ms[i], re)]

\* slip: the arity test is dropped whenever something matched
parse_unchecked(src, re, n) ==
    LET match == FindSubmatch(src, re)
    IN  IF match = <<>>
        THEN [out |-> [i \in 1..n |-> <<>>], err |-> errCantParse]
        ELSE [out |-> Tail(match), err |-> nil]

parse(src, re, n) ==
    LET match == FindSubmatch(src, re)
    IN  IF Len(match) # n + 1
        THEN [out |-> [i \in 1..n |-> <<>>], err |-> errCantParse]
        ELSE [out |-> Tail(match), err |-> nil]

parseSingle(src, re) ==
    LET got == parse(src, re, 1)
    IN  [out |-> got.out[1], err |-> got.err]

(***************************************************************************)
(* Text.  A text is a sequence of atoms: words, blanks, tags, entities.    *)
(***************************************************************************)
RECURSIVE TrimLeft(_)
TrimLeft(t) == IF t # <<>> /\ Head(t) = " " THEN TrimLeft(Tail(t)) ELSE t

RECURSIVE TrimRight(_)
TrimRight(t) ==
    IF t # <<>> /\ t[Len(t)] = " " THEN TrimRight(SubSeq(t, 1, Len(t) - 1)) ELSE t

\* strings.TrimSpace
TrimSpace(t) == TrimRight(TrimLeft(t))

AnchorTags == {"<a>", "</a>"}
Tags == AnchorTags \cup {"<p>", "</p>"}

\* stripLink strips a string of <a> tags
stripLink(s) == SelectSeq(s, LAMBDA x : x \notin AnchorTags)

\* regexp `<(.+?)?>` replaced by nothing
stripTags(s) == SelectSeq(s, LAMBDA x : x \notin Tags)

\* cleanText replaces HTML-encoded symbols with proper UTF
substitute(x) ==
    IF x = "&quot;" THEN "\"" ELSE IF x = "&ndash;" THEN "-" ELSE x

cleanText(b) ==
    [i \in 1..Len(b) |->
        [b[i] EXCEPT !.g = [j \in 1..Len(b[i].g) |->
                               [c \in 1..Len(b[i].g[j]) |-> substitute(b[i].g[j][c])]]]]

\* goquery: the concatenated text of every element the selector finds
SelText(page, sel) ==
    Flatten([i \in 1..Len(Matches(page, Re(sel, 1))) |->
                 Submatch(Matches(page, Re(sel, 1))[i], Re(sel, 1))[2]])

parseText(page, sel) == [title |-> TrimSpace(SelText(page, sel)), err |-> nil]

parseProgrammeTitle(page) ==
    LET t == parseSingle(page, programNameRe)
    IN  IF t.err # nil THEN [title |-> <<>>, err |-> t.err]
        ELSE [title |-> stripLink(t.out), err |-> nil]

(***************************************************************************)
(* URLs are sequences of atoms: scheme, host, then path pieces.            *)
(***************************************************************************)
Schemes == {"http://", "https://"}

URLParseOK(u) == \A i \in 1..Len(u) : u[i] # "%zz"

Hostname(u) == IF Len(u) >= 2 /\ u[1] \in Schemes THEN u[2] ELSE ""

\* slip: the hostname is read off the link without parsing it
parseSite_unparsed(f) == Hostname(f.Link)

parseSite(f) == IF ~URLParseOK(f.Link) THEN "" ELSE Hostname(f.Link)

\* strings.Split(url, "/brand/")[0] + "/brand/"
RECURSIVE BeforeFirst(_, _)
BeforeFirst(u, sep) ==
    IF u = <<>> \/ Head(u) = sep THEN <<>> ELSE <<Head(u)>> \o BeforeFirst(Tail(u), sep)

\* slip: the URL is cut at its last "/brand/"
episodeURLPrefix_last(u) ==
    LET at == {i \in 1..Len(u) : u[i] = "/brand/"}
    IN  IF at = {} THEN u \o <<"/brand/">>
        ELSE SubSeq(u, 1, (CHOOSE i \in at : \A j \in at : j <= i) - 1) \o <<"/brand/">>

episodeURLPrefix(u) == BeforeFirst(u, "/brand/") \o <<"/brand/">>

\* slip: the two schemes are exchanged
episodeID_swap(u) ==
    IF u # <<>> /\ Head(u) = "https://" THEN <<"http://">> \o Tail(u)
    ELSE IF u # <<>> /\ Head(u) = "http://" THEN <<"https://">> \o Tail(u)
    ELSE u

episodeID(u) ==
    IF u # <<>> /\ Head(u) = "https://" THEN <<"http://">> \o Tail(u) ELSE u

\* strings.TrimPrefix / strings.TrimSuffix by one atom
TrimPrefix(u, p) == IF u # <<>> /\ Head(u) = p THEN Tail(u) ELSE u

TrimSuffix(u, p) == IF u # <<>> /\ u[Len(u)] = p THEN SubSeq(u, 1, Len(u) - 1) ELSE u

\* (*url.URL).Parse: a reference resolved against the base
ResolveOK(l) == URLParseOK(l)

Resolve(base, l) ==
    IF l = <<>> THEN base
    ELSE IF Head(l) \in Schemes THEN l
    ELSE <<base[1], base[2]>> \o l

(***************************************************************************)
(* Feed and items (gorilla/feeds).                                         *)
(***************************************************************************)
NoEnclosure == [Url |-> <<>>, Length |-> "", Type |-> ""]

enclosure(no) ==
    [Url |-> <<"https://audio.vgtrk.com/download?id=">> \o no,
     Length |-> "1024", Type |-> "audio/mpeg"]

findEnclosure(ep) ==
    LET res == parseSingle(ep, episodeAudioRe)
    IN  IF res.err # nil THEN NoEnclosure ELSE enclosure(res.out)

\* slip: a block without a date line gets no date at all
findDate_unset(ep) ==
    IF FindSubmatch(ep, episodeDateRe) = <<>> THEN ZeroTime
    ELSE parseDate(FindSubmatch(ep, episodeDateRe))

findDate(ep) == parseDate(FindSubmatch(ep, episodeDateRe))

NewFeed(link) ==
    [Title |-> <<>>, Link |-> link, Description |-> <<>>, Image |-> Nil, Items |-> <<>>]

\* slip: the new item is put in front
Add_front(f, item) == [f EXCEPT !.Items = <<item>> \o @]

\* (*feeds.Feed).Add
Add(f, item) == [f EXCEPT !.Items = Append(@, item)]

(***************************************************************************)
(* findEpisodes: the non-overlapping leftmost matches of the block         *)
(* pattern, each from an opening container to the first following          *)
(* data-id attribute that closes a div.                                    *)
(***************************************************************************)
Closers == {"audio", "dataid"}

\* the block pattern wants at least one character in the closing data-id;
\* the audio pattern also matches data-id=""
ClosesBlock(t) == t.k \in Closers /\ (t.k = "audio" => t.g # <<>> /\ t.g[1] # <<>>)

RECURSIVE findEpisodesFrom(_, _)
findEpisodesFrom(page, from) ==
    LET opens == {i \in from..Len(page) : page[i].k = "open"}
    IN  IF opens = {} THEN <<>>
        ELSE LET i == CHOOSE x \in opens : \A y \in opens : x <= y
                 closes == {j \in (i + 1)..Len(page) : ClosesBlock(page[j])}
             IN  IF closes = {} THEN <<>>
                 ELSE LET j == CHOOSE x \in closes : \A y \in closes : x <= y
                      IN  <<SubSeq(page, i, j)>> \o findEpisodesFrom(page, j + 1)

findEpisodes(page) == findEpisodesFrom(page, 1)

(***************************************************************************)
(* populateFeed.                                                           *)
(***************************************************************************)
\* slip: the error of the link extraction is ignored
episodeLink_ignored(episode) ==
    [out |-> parseSingle(episode, episodeUrlRe).out, err |-> nil]

\* url, err := parseSingle(episode, episodeUrlRe)
episodeLink(episode) == parseSingle(episode, episodeUrlRe)

\* slip: the Id is the link as it stands
legacyItem_rawid(episode, urlPrefix) ==
    LET episodeUrl == urlPrefix \o episodeLink(episode).out
    IN  [Id |-> episodeUrl,
         Link |-> episodeUrl,
         Title |-> parseSingle(episode, episodeTitleRe).out,
         Enclosure |-> findEnclosure(episode),
         Created |-> findDate(episode),
         Description |-> <<>>]

legacyItem(episode, urlPrefix) ==
    LET episodeUrl == urlPrefix \o episodeLink(episode).out
    IN  [Id |-> episodeID(episodeUrl),
         Link |-> episodeUrl,
         Title |-> parseSingle(episode, episodeTitleRe).out,
         Enclosure |-> findEnclosure(episode),
         Created |-> findDate(episode),
         Description |-> <<>>]

\* variant: every block is validated before the first item is added
RECURSIVE addLegacyItems(_, _, _)
addLegacyItems(f, episodes, urlPrefix) ==
    IF episodes = <<>> THEN f
    ELSE addLegacyItems(Add(f, legacyItem(Head(episodes), urlPrefix)), Tail(episodes), urlPrefix)

populateLegacyEpisodes_atomic(f, episodes, urlPrefix) ==
    IF \E i \in 1..Len(episodes) : Len(FindAllSubmatch(episodes[i], episodeUrlRe)) # 1
    THEN [feed |-> f, err |-> errBadEpisode]
    ELSE [feed |-> addLegacyItems(f, episodes, urlPrefix), err |-> nil]

RECURSIVE populateLegacyEpisodes(_, _, _)
populateLegacyEpisodes(f, episodes, urlPrefix) ==
    IF episodes = <<>> THEN [feed |-> f, err |-> nil]
    ELSE LET episode == Head(episodes)
         IN  IF Len(FindAllSubmatch(episode, episodeUrlRe)) > 1
             THEN [feed |-> f, err |-> errBadEpisode]
             ELSE IF episodeLink(episode).err # nil
             THEN [feed |-> f, err |-> errBadEpisode]
             ELSE populateLegacyEpisodes(Add(f, legacyItem(episode, urlPrefix)),
                                         Tail(episodes), urlPrefix)

smotrimItem(s, base) ==
    LET l == IF Len(s.g) >= 1 THEN s.g[1] ELSE <<>>
        id == TrimPrefix(l, "/audio/")
    IN  [Id |-> id,
         Link |-> Resolve(base, l),
         Title |-> IF Len(s.g) >= 2 THEN TrimSpace(s.g[2]) ELSE <<>>,
         Enclosure |-> enclosure(id),
         Created |-> ZeroTime,
         Description |-> <<>>]

RECURSIVE eachCard(_, _, _)
eachCard(f, cards, base) ==
    IF cards = <<>> THEN f
    ELSE LET s == Head(cards)
             l == IF Len(s.g) >= 1 THEN s.g[1] ELSE <<>>
         IN  IF ~ResolveOK(l) THEN eachCard(f, Tail(cards), base)
             ELSE eachCard(Add(f, smotrimItem(s, base)), Tail(cards), base)

populateSmotrimEpisodes(f, page) ==
    IF ~URLParseOK(f.Link) THEN [feed |-> f, err |-> "invalid URL"]
    ELSE [feed |-> eachCard(f, Matches(page, Re("card", 2)), f.Link), err |-> nil]

\* slip: the legacy pattern is tried before the picture selector
addFeedImage_legacyfirst(page, f) ==
    LET img == Matches(page, Re("img", 2))
        programImage == parse(page, programImageRe, 4)
    IN  IF programImage.err = nil
        THEN [f EXCEPT !.Image = [Link |-> f.Link, Url |-> programImage.out[2],
                                  Title |-> programImage.out[4]]]
        ELSE IF img # <<>> /\ Len(img[1].g) >= 1
        THEN [f EXCEPT !.Image = [Link |-> f.Link, Url |-> img[1].g[1],
                                  Title |-> IF Len(img[1].g) >= 2 THEN img[1].g[2] ELSE <<>>]]
        ELSE f

\* the src attribute of the first img under the picture selector, else the
\* second and fourth groups of the legacy image pattern, else no image
addFeedImage(page, f) ==
    LET img == Matches(page, Re("img", 2))
        programImage == parse(page, programImageRe, 4)
    IN  IF img # <<>> /\ Len(img[1].g) >= 1
        THEN [f EXCEPT !.Image = [Link |-> f.Link, Url |-> img[1].g[1],
                                  Title |-> IF Len(img[1].g) >= 2 THEN img[1].g[2] ELSE <<>>]]
        ELSE IF programImage.err = nil
        THEN [f EXCEPT !.Image = [Link |-> f.Link, Url |-> programImage.out[2],
                                  Title |-> programImage.out[4]]]
        ELSE f

populateFeed(f, page) ==
    LET t1 == parseText(page, "seltitle")
        t2 == IF t1.title = <<>> THEN parseProgrammeTitle(page) ELSE t1
        f1 == [f EXCEPT !.Title = t2.title]
    IN  IF t2.err # nil THEN [feed |-> f1, err |-> errBadProgramme]
        ELSE LET f2 == addFeedImage(page,
                               [f1 EXCEPT !.Description = parseText(page, "about").title])
             IN  IF parseSite(f2) = "smotrim.ru"
                 THEN populateSmotrimEpisodes(f2, page)
                 ELSE populateLegacyEpisodes(f2, findEpisodes(page),
                                             episodeURLPrefix(f2.Link))

(***************************************************************************)
(* Episode and programme descriptions.                                     *)
(***************************************************************************)
\* slip: an empty text is appended like any other
addText_always(arr, str) == Append(arr, str)

addText(arr, str) == IF str # <<>> THEN Append(arr, str) ELSE arr

\* strings.Join(r, "\n\n")
RECURSIVE Join(_, _)
Join(r, sep) ==
    IF r = <<>> THEN <<>>
    ELSE IF Len(r) = 1 THEN r[1]
    ELSE r[1] \o <<sep>> \o Join(Tail(r), sep)

processEpisodeDesc(page) ==
    LET r1 == addText(<<>>, SelText(page, "ep_anons"))
        r2 == addText(r1, SelText(page, "ep_body"))
        r3 == addText(r2, TrimSpace(SelText(page, "video")))
        res == Join(r3, "\n\n")
    IN  IF res = <<>> THEN [desc |-> <<>>, err |-> errCantParse]
        ELSE [desc |-> res, err |-> nil]

processFeedDesc(page) ==
    LET res == parseSingle(page, programAboutRe)
    IN  IF res.err # nil THEN [desc |-> <<>>, err |-> res.err]
        ELSE [desc |-> stripTags(res.out), err |-> nil]

\* The date line of a detail page: day, month name, year, hour, minute.
\* The month names are the twelve Russian genitives, transliterated here.
mnths ==
    << "yanvarya", "fevralya", "marta", "aprelya", "maya", "iyunya", "iyulya",
       "avgusta", "sentyabrya", "oktyabrya", "noyabrya", "dekabrya" >>

parseSmotrimDate(page) ==
    LET ds == Matches(page, Re("vdate", 5))
    IN  IF ds = <<>> \/ Len(ds[1].g) # 5 THEN ZeroTime
        ELSE LET g == ds[1].g
                 ms == {i \in 1..12 : g[2] = <<mnths[i]>>}
             IN  IF ms = {} \/ \E i \in {1, 3, 4, 5} : ~AtoiOK(g[i]) THEN ZeroTime
                 ELSE TimeDate(AtoiVal(g[3]), CHOOSE i \in ms : TRUE, AtoiVal(g[1]),
                               AtoiVal(g[4]), AtoiVal(g[5]))

(***************************************************************************)
(* Pages the server can answer with.                                       *)
(***************************************************************************)
Tok(k, g) == [k |-> k, g |-> g]

LegacyURL == <<"https://", "www.radiorus.ru", "/brand/", "57083", "/", "episodes">>
SmotrimURL == <<"https://", "smotrim.ru", "/brand/", "57083">>

H_none == <<>>
H_sel == <<Tok("seltitle", <<<<" ", "T", " ">>>>)>>
H_selabout == <<Tok("seltitle", <<<<"T">>>>), Tok("about", <<<<"About">>>>)>>
H_h2 == <<Tok("h2", <<<<"<a>", "&quot;", "T", "&quot;", "</a>">>>>)>>
H_emptyh2 == <<Tok("h2", <<>>)>>
H_anchorh2 == <<Tok("h2", <<<<"<a>", "</a>">>>>)>>

\* cover images: an img under the picture selector with and without a src
\* attribute, and the legacy promo header
I_img == Tok("img", << <<"new.jpg">>, <<"New">> >>)
I_nosrc == Tok("img", <<>>)
I_promo == Tok("promo", << <<>>, <<"old.jpg">>, <<>>, <<"Old">> >>)

Images ==
    { <<>>, <<I_img>>, <<I_nosrc>>, <<I_promo>>, <<I_nosrc, I_promo>>, <<I_promo, I_img>> }

DateOK == << <<"2", "4">>, <<"1", "1">>, <<"2", "0", "1", "9">>, <<"1", "4">>, <<"1", "0">> >>

B_full ==
    << Tok("open", <<>>), Tok("link", <<<<"57083", "/episode/", "a">>>>),
       Tok("etitle", <<<<"A">>>>), Tok("date", DateOK), Tok("audio", <<<<"7">>>>) >>
B_bare == << Tok("open", <<>>), Tok("link", <<<<"57083", "/episode/", "b">>>>), Tok("dataid", <<>>) >>
B_dup ==
    << Tok("open", <<>>), Tok("link", <<<<"57083", "/episode/", "a">>>>),
       Tok("link", <<<<"57083", "/episode/", "b">>>>), Tok("audio", <<<<"7">>>>) >>
B_nolink == << Tok("open", <<>>), Tok("etitle", <<<<"A">>>>), Tok("dataid", <<>>) >>
B_garbled ==
    << Tok("open", <<>>), Tok("link", <<<<"57083", "/episode/", "d">>>>),
       Tok("date", << <<"2", "4">>, <<"x">>, <<"2", "0", "1", "9">>, <<"1", "4">>, <<"1", "0">> >>),
       Tok("dataid", <<>>) >>
\* a block dated 01.01.0001 at 03:00
B_yearone ==
    << Tok("open", <<>>), Tok("link", <<<<"57083", "/episode/", "e">>>>),
       Tok("etitle", <<<<"E">>>>),
       Tok("date", << <<"0", "1">>, <<"0", "1">>, <<"0", "0", "0", "1">>, <<"0", "3">>, <<"0", "0">> >>),
       Tok("audio", <<<<"9">>>>) >>
B_noid ==
    << Tok("open", <<>>), Tok("link", <<<<"57083", "/episode/", "c">>>>),
       Tok("audio", <<>>), Tok("dataid", <<>>) >>
Card0 == << Tok("card", <<>>) >>
Card1 == << Tok("card", << <<"/audio/", "1">>, <<" ", "C", " ">> >>) >>
Card2 == << Tok("card", << <<"/audio/", "%zz">>, <<"D">> >>) >>

PagesOf(headers, pieces) ==
    {h \o Flatten(bs) : h \in headers, bs \in SeqsUpTo(pieces, MaxBlocks)}

PipelinePages == PagesOf({H_none, H_selabout, H_h2}, {B_full, B_bare, B_dup, Card1})

PopulatePages ==
    PagesOf({h \o im : h \in {H_none, H_sel, H_selabout, H_h2, H_emptyh2, H_anchorh2},
                       im \in Images},
            {B_full, B_bare, B_dup, B_nolink, B_noid, B_garbled, Card0, Card1, Card2})

\* detail pages: nothing to find (such as a 404 answer), a legacy episode
\* page, a redesigned one with its date line
D_none == <<>>
D_episode == << Tok("ep_anons", <<<<"Anons">>>>), Tok("ep_body", <<<<"Body">>>>) >>
D_video ==
    << Tok("video", <<<<" ", "Video", " ">>>>),
       Tok("vdate", << <<"2", "4">>, <<"noyabrya">>, <<"2", "0", "1", "9">>, <<"1", "4">>, <<"1", "0">> >>) >>

DetailPages == {D_none, D_episode, D_video}

A_none == <<>>
A_about == << Tok("anons", <<<<"<p>", "About", "</p>">>>>) >>

AboutPages == {A_none, A_about}

(***************************************************************************)
(* processURL: the main goroutine.                                         *)
(***************************************************************************)
NoTask == [pc |-> "unlaunched", url |-> <<>>, page |-> <<>>]

\* the pipeline variables while a single function is exercised on its own
PipelineIdle ==
    /\ url = <<>> /\ served = Nil /\ pc = "idle"
    /\ feed = Nil /\ err = nil /\ wg = 0 /\ wgEp = 0 /\ idx = 0
    /\ feedTask = NoTask /\ epTask = <<>> /\ exited = FALSE
    /\ logbuf = {} /\ writes = {}

Unreachable == [status |-> "unreachable", page |-> <<>>, url |-> <<>>]

Init ==
    /\ url \in {LegacyURL, SmotrimURL}
    /\ served \in {Unreachable}
                  \cup [status : {"ok"}, page : PipelinePages, url : {url, SmotrimURL}]
    /\ pc = "start"
    /\ feed = Nil
    /\ err = nil
    /\ wg = 0 /\ wgEp = 0 /\ idx = 0
    /\ feedTask = NoTask
    /\ epTask = <<>>
    /\ exited = FALSE
    /\ logbuf = {}
    /\ writes = {}
    /\ args = Nil /\ ret = Nil /\ called = FALSE

Log(msg, u, cause) == [msg |-> msg, url |-> u, cause |-> cause]

\* slip: the error of populateFeed is logged and the run goes on
GetFeed_lenient ==
    /\ pc = "start" /\ ~exited
    /\ IF served.status # "ok"
       THEN /\ exited' = TRUE
            /\ pc' = "fatal"
            /\ logbuf' = logbuf \cup {Log("fatal", url, "transport")}
            /\ UNCHANGED <<feed, err>>
       ELSE LET r == populateFeed(NewFeed(served.url), cleanText(served.page))
            IN  /\ feed' = r.feed
                /\ err' = r.err
                /\ pc' = "launch"
                /\ logbuf' = IF r.err # nil
                             THEN logbuf \cup {Log("could not process", served.url, r.err)}
                             ELSE logbuf
                /\ UNCHANGED exited
    /\ UNCHANGED <<url, served, wg, wgEp, idx, feedTask, epTask, writes, harnessVars>>

\* getFeed: fetch the listing page, build the feed, log.Fatal on any failure
GetFeed ==
    /\ pc = "start" /\ ~exited
    /\ IF served.status # "ok"
       THEN /\ exited' = TRUE
            /\ pc' = "fatal"
            /\ logbuf' = logbuf \cup {Log("fatal", url, "transport")}
            /\ UNCHANGED <<feed, err>>
       ELSE LET r == populateFeed(NewFeed(served.url), cleanText(served.page))
            IN  /\ feed' = r.feed
                /\ err' = r.err
                /\ IF r.err # nil
                   THEN /\ exited' = TRUE
                        /\ pc' = "fatal"
                        /\ logbuf' = logbuf \cup {Log("could not process", served.url, r.err)}
                   ELSE /\ pc' = "launch"
                        /\ UNCHANGED <<exited, logbuf>>
    /\ UNCHANGED <<url, served, wg, wgEp, idx, feedTask, epTask, writes, harnessVars>>

\* slip: the about page is fetched whatever the Description
LaunchFeed_always ==
    /\ pc = "launch" /\ ~exited
    /\ wg' = wg + 1
    /\ feedTask' = [pc |-> "fetch", url |-> <<>>, page |-> <<>>]
    /\ pc' = "range"
    /\ idx' = 1
    /\ UNCHANGED <<url, served, feed, err, wgEp, epTask, exited, logbuf, writes, harnessVars>>

\* if feed.Description == "" { wg.Add(1); go describeFeed(feed, &wg) }
LaunchFeed ==
    /\ pc = "launch" /\ ~exited
    /\ IF feed.Description = <<>>
       THEN /\ wg' = wg + 1
            /\ feedTask' = [pc |-> "fetch", url |-> <<>>, page |-> <<>>]
       ELSE UNCHANGED <<wg, feedTask>>
    /\ pc' = "range"
    /\ idx' = 1
    /\ UNCHANGED <<url, served, feed, err, wgEp, epTask, exited, logbuf, writes, harnessVars>>

\* slip: every goroutine is handed the first item
SpawnEpisode_shared ==
    /\ pc = "range" /\ ~exited
    /\ idx <= Len(feed.Items)
    /\ wgEp' = wgEp + 1
    /\ epTask' = Append(epTask, [pc |-> "fetch", item |-> 1, page |-> <<>>])
    /\ idx' = idx + 1
    /\ UNCHANGED <<url, served, pc, feed, err, wg, feedTask, exited, logbuf, writes, harnessVars>>

\* describeEpisodes, one turn of the loop: wg.Add(1); go describeEpisode(item, &wg)
SpawnEpisode ==
    /\ pc = "range" /\ ~exited
    /\ idx <= Len(feed.Items)
    /\ wgEp' = wgEp + 1
    /\ epTask' = Append(epTask, [pc |-> "fetch", item |-> idx, page |-> <<>>])
    /\ idx' = idx + 1
    /\ UNCHANGED <<url, served, pc, feed, err, wg, feedTask, exited, logbuf, writes, harnessVars>>

\* slip: describeEpisodes returns without waiting
WaitEpisodes_nowait ==
    /\ pc = "range" /\ ~exited
    /\ idx > Len(feed.Items)
    /\ pc' = "wait"
    /\ UNCHANGED <<url, served, feed, err, wg, wgEp, idx, feedTask, epTask, exited, logbuf,
                   writes, harnessVars>>

\* describeEpisodes, after the loop: wg.Wait()
WaitEpisodes ==
    /\ pc = "range" /\ ~exited
    /\ idx > Len(feed.Items)
    /\ wgEp = 0
    /\ pc' = "wait"
    /\ UNCHANGED <<url, served, feed, err, wg, wgEp, idx, feedTask, epTask, exited, logbuf,
                   writes, harnessVars>>

\* slip: processURL returns without waiting for the feed task
WaitFeed_nowait ==
    /\ pc = "wait" /\ ~exited
    /\ pc' = "returned"
    /\ UNCHANGED <<url, served, feed, err, wg, wgEp, idx, feedTask, epTask, exited, logbuf,
                   writes, harnessVars>>

\* processURL: wg.Wait(); return feed
WaitFeed ==
    /\ pc = "wait" /\ ~exited
    /\ wg = 0
    /\ pc' = "returned"
    /\ UNCHANGED <<url, served, feed, err, wg, wgEp, idx, feedTask, epTask, exited, logbuf,
                   writes, harnessVars>>

(***************************************************************************)
(* describeFeed, one goroutine.                                            *)
(***************************************************************************)
aboutURL(f) == TrimSuffix(f.Link, "episodes") \o <<"about">>

\* getPage(url): the page, or log.Fatal on a transport error
FeedFetch ==
    /\ feedTask.pc = "fetch" /\ ~exited
    /\ \/ \E p \in AboutPages :
             /\ feedTask' = [pc |-> "describe", url |-> aboutURL(feed), page |-> cleanText(p)]
             /\ UNCHANGED <<exited, logbuf>>
       \/ /\ feedTask' = [feedTask EXCEPT !.pc = "fatal", !.url = aboutURL(feed)]
          /\ exited' = TRUE
          /\ logbuf' = logbuf \cup {Log("fatal", aboutURL(feed), "transport")}
    /\ UNCHANGED <<url, served, pc, feed, err, wg, wgEp, idx, epTask, writes, harnessVars>>

FeedDescribe ==
    /\ feedTask.pc = "describe" /\ ~exited
    /\ LET r == processFeedDesc(feedTask.page)
       IN  /\ logbuf' = IF r.err # nil
                        THEN logbuf \cup {Log("could not find programme description on page",
                                              feedTask.url, r.err)}
                        ELSE logbuf
           /\ feed' = [feed EXCEPT !.Description = r.desc]
    /\ writes' = writes \cup {[by |-> <<"feed", 0>>, obj |-> <<"feed", 0>>, field |-> "Description"]}
    /\ feedTask' = [feedTask EXCEPT !.pc = "deferred"]
    /\ UNCHANGED <<url, served, pc, err, wg, wgEp, idx, epTask, exited, harnessVars>>

\* defer wg.Done()
FeedDone ==
    /\ feedTask.pc = "deferred" /\ ~exited
    /\ wg' = wg - 1
    /\ feedTask' = [feedTask EXCEPT !.pc = "done"]
    /\ UNCHANGED <<url, served, pc, feed, err, wgEp, idx, epTask, exited, logbuf, writes,
                   harnessVars>>

(***************************************************************************)
(* describeEpisode, one goroutine per item.                                *)
(***************************************************************************)
EpFetch(i) ==
    /\ epTask[i].pc = "fetch" /\ ~exited
    /\ \/ \E p \in DetailPages :
             /\ epTask' = [epTask EXCEPT ![i].pc = "describe", ![i].page = cleanText(p)]
             /\ UNCHANGED <<exited, logbuf>>
       \/ /\ epTask' = [epTask EXCEPT ![i].pc = "fatal"]
          /\ exited' = TRUE
          /\ logbuf' = logbuf \cup {Log("fatal", feed.Items[epTask[i].item].Link, "transport")}
    /\ UNCHANGED <<url, served, pc, feed, err, wg, wgEp, idx, feedTask, writes, harnessVars>>

\* slip: a page without a description ends the process
EpDescribe_fatal(i) ==
    /\ epTask[i].pc = "describe" /\ ~exited
    /\ LET r == processEpisodeDesc(epTask[i].page)
           it == epTask[i].item
       IN  IF r.err # nil
           THEN /\ exited' = TRUE
                /\ logbuf' = logbuf \cup {Log("fatal", feed.Items[it].Link, r.err)}
                /\ epTask' = [epTask EXCEPT ![i].pc = "fatal"]
                /\ UNCHANGED <<feed, writes>>
           ELSE /\ feed' = [feed EXCEPT !.Items[it].Description = r.desc]
                /\ writes' = writes \cup {[by |-> <<"ep", i>>, obj |-> <<"item", it>>,
                                           field |-> "Description"]}
                /\ epTask' = [epTask EXCEPT ![i].pc = "date"]
                /\ UNCHANGED <<exited, logbuf>>
    /\ UNCHANGED <<url, served, pc, err, wg, wgEp, idx, feedTask, harnessVars>>

\* desc, err := processEpisodeDesc(page); log on error; item.Description = desc
EpDescribe(i) ==
    /\ epTask[i].pc = "describe" /\ ~exited
    /\ LET r == processEpisodeDesc(epTask[i].page)
           it == epTask[i].item
       IN  /\ logbuf' = IF r.err # nil
                        THEN logbuf \cup {Log("could not find episode description on page",
                                              feed.Items[it].Link, r.err)}
                        ELSE logbuf
           /\ feed' = [feed EXCEPT !.Items[it].Description = r.desc]
           /\ writes' = writes \cup {[by |-> <<"ep", i>>, obj |-> <<"item", it>>,
                                      field |-> "Description"]}
    /\ epTask' = [epTask EXCEPT ![i].pc = "date"]
    /\ UNCHANGED <<url, served, pc, err, wg, wgEp, idx, feedTask, exited, harnessVars>>

\* if item.Created.IsZero() { item.Created = parseSmotrimDate(page) }
EpDate(i) ==
    /\ epTask[i].pc = "date" /\ ~exited
    /\ LET it == epTask[i].item
       IN  IF IsZero(feed.Items[it].Created)
           THEN /\ feed' = [feed EXCEPT !.Items[it].Created = parseSmotrimDate(epTask[i].page)]
                /\ writes' = writes \cup {[by |-> <<"ep", i>>, obj |-> <<"item", it>>,
                                           field |-> "Created"]}
           ELSE UNCHANGED <<feed, writes>>
    /\ epTask' = [epTask EXCEPT ![i].pc = "deferred"]
    /\ UNCHANGED <<url, served, pc, err, wg, wgEp, idx, feedTask, exited, logbuf, harnessVars>>

\* slip: a task that found no description returns without wg.Done()
EpDone_lost(i) ==
    /\ epTask[i].pc = "deferred" /\ ~exited
    /\ wgEp' = IF feed.Items[epTask[i].item].Description = <<>> THEN wgEp ELSE wgEp - 1
    /\ epTask' = [epTask EXCEPT ![i].pc = "done"]
    /\ UNCHANGED <<url, served, pc, feed, err, wg, idx, feedTask, exited, logbuf, writes,
                   harnessVars>>

\* defer wg.Done()
EpDone(i) ==
    /\ epTask[i].pc = "deferred" /\ ~exited
    /\ wgEp' = wgEp - 1
    /\ epTask' = [epTask EXCEPT ![i].pc = "done"]
    /\ UNCHANGED <<url, served, pc, feed, err, wg, idx, feedTask, exited, logbuf, writes,
                   harnessVars>>

EpisodeFetch == \E i \in 1..Len(epTask) : EpFetch(i)
EpisodeDescribe == \E i \in 1..Len(epTask) : EpDescribe(i)
EpisodeDate == \E i \in 1..Len(epTask) : EpDate(i)
EpisodeDone == \E i \in 1..Len(epTask) : EpDone(i)

\* slip: after a bad episode getFeed sleeps and fetches the listing again
Next_retry ==
    \/ GetFeed
    \/ /\ pc = "fatal" /\ err = errBadEpisode
       /\ pc' = "start"
       /\ exited' = FALSE
       /\ UNCHANGED <<url, served, feed, err, wg, wgEp, idx, feedTask, epTask, logbuf,
                      writes, harnessVars>>
    \/ LaunchFeed
    \/ SpawnEpisode
    \/ WaitEpisodes
    \/ WaitFeed
    \/ FeedFetch
    \/ FeedDescribe
    \/ FeedDone
    \/ EpisodeFetch
    \/ EpisodeDescribe
    \/ EpisodeDate
    \/ EpisodeDone

Next ==
    \/ GetFeed
    \/ LaunchFeed
    \/ SpawnEpisode
    \/ WaitEpisodes
    \/ WaitFeed
    \/ FeedFetch
    \/ FeedDescribe
    \/ FeedDone
    \/ EpisodeFetch
    \/ EpisodeDescribe
    \/ EpisodeDate
    \/ EpisodeDone

Spec == Init /\ [][Next]_vars

(***************************************************************************)
(* The pipeline with fetches that never answer.  http.Client{} has no      *)
(* timeout, so client.Do can block for ever: the task then stays where it  *)
(* is.  Every goroutine that can take a step eventually takes it.          *)
(***************************************************************************)
MaxTasks == 2

LivePages ==
    {h \o Flatten(bs) : h \in {H_sel, H_selabout}, bs \in SeqsUpTo({B_bare}, MaxTasks)}

InitLive ==
    /\ url = LegacyURL
    /\ served \in [status : {"ok"}, page : LivePages, url : {url}]
    /\ pc = "start"
    /\ feed = Nil
    /\ err = nil
    /\ wg = 0 /\ wgEp = 0 /\ idx = 0
    /\ feedTask = NoTask
    /\ epTask = <<>>
    /\ exited = FALSE
    /\ logbuf = {}
    /\ writes = {}
    /\ args = Nil /\ ret = Nil /\ called = FALSE

\* client.Do(req) of the feed task never returns
FeedHang ==
    /\ feedTask.pc = "fetch" /\ ~exited
    /\ feedTask' = [feedTask EXCEPT !.pc = "hung", !.url = aboutURL(feed)]
    /\ UNCHANGED <<url, served, pc, feed, err, wg, wgEp, idx, epTask, exited, logbuf, writes,
                   harnessVars>>

\* client.Do(req) of an episode task never returns
EpHang(i) ==
    /\ epTask[i].pc = "fetch" /\ ~exited
    /\ epTask' = [epTask EXCEPT ![i].pc = "hung"]
    /\ UNCHANGED <<url, served, pc, feed, err, wg, wgEp, idx, feedTask, exited, logbuf, writes,
                   harnessVars>>

EpisodeHang == \E i \in 1..Len(epTask) : EpHang(i)

NextLive == Next \/ FeedHang \/ EpisodeHang

\* processURL once getFeed has returned
MainStep == LaunchFeed \/ SpawnEpisode \/ WaitEpisodes \/ WaitFeed

FeedStep == FeedFetch \/ FeedHang \/ FeedDescribe \/ FeedDone

EpStep(i) ==
    /\ i <= Len(epTask)
    /\ (EpFetch(i) \/ EpHang(i) \/ EpDescribe(i) \/ EpDate(i) \/ EpDone(i))

\* a step of some goroutine of the concurrent phase.  Every goroutine ends
\* after a bounded number of steps, so fairness to the goroutines together
\* is what the scheduler's fairness to each of them gives.
ConcurrentStep == MainStep \/ FeedStep \/ \E i \in 1..Len(epTask) : EpStep(i)

SpecLive == InitLive /\ [][NextLive]_vars /\ WF_vars(ConcurrentStep)

(***************************************************************************)
(* The pipeline on legacy listings whose blocks carry any date.            *)
(***************************************************************************)
DatedPages == PagesOf({H_selabout}, {B_full, B_bare, B_yearone})

InitDated ==
    /\ url = LegacyURL
    /\ served \in [status : {"ok"}, page : DatedPages, url : {url}]
    /\ pc = "start"
    /\ feed = Nil
    /\ err = nil
    /\ wg = 0 /\ wgEp = 0 /\ idx = 0
    /\ feedTask = NoTask
    /\ epTask = <<>>
    /\ exited = FALSE
    /\ logbuf = {}
    /\ writes = {}
    /\ args = Nil /\ ret = Nil /\ called = FALSE

NextDated ==
    \/ GetFeed
    \/ LaunchFeed
    \/ SpawnEpisode
    \/ WaitEpisodes
    \/ WaitFeed
    \/ EpisodeFetch
    \/ EpisodeDescribe
    \/ EpisodeDate
    \/ EpisodeDone

SpecDated == InitDated /\ [][NextDated]_vars

(***************************************************************************)
(* The historical getFeed, which sleeps and tries again on errBadEpisode,  *)
(* with the populateFeed of that version.  A block of that version runs    *)
(* from the opening container to the add-to-list div.                      *)
(***************************************************************************)
MaxAttempts == 3     \* most passes of the retry loop

errBadProgramPage == "bad program page"
errSyntax == "strconv.Atoi: invalid syntax"
errIndex == "panic: index out of range"

RECURSIVE retryEpisodesFrom(_, _)
retryEpisodesFrom(page, from) ==
    LET opens == {i \in from..Len(page) : page[i].k = "open"}
    IN  IF opens = {} THEN <<>>
        ELSE LET i == CHOOSE x \in opens : \A y \in opens : x <= y
                 closes == {j \in (i + 1)..Len(page) : page[j].k = "add"}
             IN  IF closes = {} THEN <<>>
                 ELSE LET j == CHOOSE x \in closes : \A y \in closes : x <= y
                      IN  <<SubSeq(page, i, j)>> \o retryEpisodesFrom(page, j + 1)

\* the body of the loop over the blocks: the error it stops with, or the item
retryItem(episode, urlPrefix) ==
    LET link == FindSubmatch(episode, episodeUrlRe)
        title == FindSubmatch(episode, episodeTitleRe)
        audio == FindSubmatch(episode, episodeAudioRe)
        dateBytes == FindSubmatch(episode, episodeDateRe)
    IN  IF Len(FindAllSubmatch(episode, episodeUrlRe)) > 1
        THEN [err |-> errBadEpisode, item |-> Nil]
        ELSE IF link = <<>> \/ title = <<>> \/ audio = <<>> \/ dateBytes = <<>>
        THEN [err |-> errIndex, item |-> Nil]
        ELSE IF \E i \in 2..6 : ~AtoiOK(dateBytes[i])
        THEN [err |-> errSyntax, item |-> Nil]
        ELSE [err |-> nil,
              item |-> [Id |-> urlPrefix \o link[2],
                        Link |-> urlPrefix \o link[2],
                        Title |-> title[2],
                        Enclosure |-> enclosure(audio[2]),
                        Created |-> TimeDate(AtoiVal(dateBytes[4]), AtoiVal(dateBytes[3]),
                                             AtoiVal(dateBytes[2]), AtoiVal(dateBytes[5]),
                                             AtoiVal(dateBytes[6])),
                        Description |-> <<>>]]

RECURSIVE retryEpisodes(_, _, _)
retryEpisodes(f, episodes, urlPrefix) ==
    IF episodes = <<>> THEN [feed |-> f, err |-> nil]
    ELSE LET r == retryItem(Head(episodes), urlPrefix)
         IN  IF r.err # nil THEN [feed |-> f, err |-> r.err]
             ELSE retryEpisodes(Add(f, r.item), Tail(episodes), urlPrefix)

retryPopulateFeed(f, page) ==
    LET titleMatch == FindSubmatch(page, programNameRe)
        programImage == FindSubmatch(page, programImageRe)
    IN  IF Len(titleMatch) < 1 THEN [feed |-> f, err |-> errBadProgramPage]
        ELSE IF programImage = <<>> THEN [feed |-> [f EXCEPT !.Title = titleMatch[2]], err |-> errIndex]
        ELSE retryEpisodes([f EXCEPT !.Title = titleMatch[2],
                                     !.Image = [Link |-> f.Link, Url |-> programImage[3],
                                                Title |-> programImage[5]]],
                           retryEpisodesFrom(page, 1), episodeURLPrefix(f.Link))

R_head == <<Tok("h2", <<<<"T">>>>), I_promo>>
R_notitle == <<I_promo>>
R_noimage == <<Tok("h2", <<<<"T">>>>)>>

R_a ==
    << Tok("open", <<>>), Tok("link", <<<<"57083", "/episode/", "a">>>>),
       Tok("etitle", <<<<"A">>>>), Tok("audio", <<<<"7">>>>), Tok("date", DateOK),
       Tok("add", <<>>) >>
R_b ==
    << Tok("open", <<>>), Tok("link", <<<<"57083", "/episode/", "b">>>>),
       Tok("etitle", <<<<"B">>>>), Tok("audio", <<<<"8">>>>), Tok("date", DateOK),
       Tok("add", <<>>) >>
R_dup ==
    << Tok("open", <<>>), Tok("link", <<<<"57083", "/episode/", "b">>>>),
       Tok("etitle", <<<<"B">>>>), Tok("audio", <<<<"8">>>>),
       Tok("link", <<<<"57083", "/episode/", "c">>>>), Tok("date", DateOK),
       Tok("add", <<>>) >>
R_nodate ==
    << Tok("open", <<>>), Tok("link", <<<<"57083", "/episode/", "c">>>>),
       Tok("etitle", <<<<"C">>>>), Tok("audio", <<<<"9">>>>), Tok("add", <<>>) >>
R_garbled ==
    << Tok("open", <<>>), Tok("link", <<<<"57083", "/episode/", "d">>>>),
       Tok("etitle", <<<<"D">>>>), Tok("audio", <<<<"9">>>>),
       Tok("date", << <<"2", "4">>, <<"x">>, <<"2", "0", "1", "9">>, <<"1", "4">>, <<"1", "0">> >>),
       Tok("add", <<>>) >>

RetryPages ==
    PagesOf({R_head}, {R_a, R_b, R_dup, R_nodate, R_garbled})
        \cup PagesOf({R_notitle, R_noimage}, {R_a})

InitRetry ==
    /\ url = LegacyURL
    /\ served \in [status : {"ok", "down"}, page : RetryPages, url : {url}]
    /\ pc = "start"
    /\ feed = Nil
    /\ err = nil
    /\ wg = 0 /\ wgEp = 0 /\ idx = 0
    /\ feedTask = NoTask
    /\ epTask = <<>>
    /\ exited = FALSE
    /\ logbuf = {}
    /\ writes = {}
    /\ args = Nil /\ ret = Nil /\ called = FALSE

\* feed = &feeds.Feed{Link: &feeds.Link{Href: url}}
RetryEnter ==
    /\ pc = "start" /\ ~exited
    /\ feed' = NewFeed(url)
    /\ pc' = "loop"
    /\ UNCHANGED <<url, served, err, wg, wgEp, idx, feedTask, epTask, exited, logbuf,
                   writes, harnessVars>>

\* one pass of the loop: getPage, then populateFeed on the same feed
RetryAttempt ==
    /\ pc = "loop" /\ ~exited
    /\ idx' = idx + 1
    /\ IF served.status # "ok"
       THEN /\ exited' = TRUE
            /\ pc' = "fatal"
            /\ logbuf' = logbuf \cup {Log("fatal", url, "transport")}
            /\ UNCHANGED <<feed, err>>
       ELSE LET r == retryPopulateFeed(feed, cleanText(served.page))
            IN  /\ feed' = r.feed
                /\ err' = r.err
                /\ IF r.err = errBadEpisode
                   THEN /\ pc' = "sleep"
                        /\ UNCHANGED <<exited, logbuf>>
                   ELSE IF r.err # nil
                   THEN /\ exited' = TRUE
                        /\ pc' = "fatal"
                        /\ logbuf' = logbuf \cup {Log("could not process", url, r.err)}
                   ELSE /\ pc' = "returned"
                        /\ UNCHANGED <<exited, logbuf>>
    /\ UNCHANGED <<url, served, wg, wgEp, feedTask, epTask, writes, harnessVars>>

\* time.Sleep(15 * 60 * time.Second); continue: the site serves whatever it
\* has by then
RetrySleep ==
    /\ pc = "sleep" /\ ~exited
    /\ idx < MaxAttempts
    /\ served' \in [status : {"ok", "down"}, page : RetryPages, url : {url}]
    /\ pc' = "loop"
    /\ UNCHANGED <<url, feed, err, wg, wgEp, idx, feedTask, epTask, exited, logbuf,
                   writes, harnessVars>>

NextRetry ==
    \/ RetryEnter
    \/ RetryAttempt
    \/ RetrySleep

SpecRetry == InitRetry /\ [][NextRetry]_vars

(***************************************************************************)
(* Harness for populateFeed.                                               *)
(***************************************************************************)
OldItem ==
    [Id |-> <<"http://", "www.radiorus.ru", "/brand/", "57083", "/episode/", "old">>,
     Link |-> <<"https://", "www.radiorus.ru", "/brand/", "57083", "/episode/", "old">>,
     Title |-> <<"Old">>, Enclosure |-> NoEnclosure, Created |-> Sentinel,
     Description |-> <<>>]

InitPopulate ==
    /\ PipelineIdle
    /\ args \in [feed : {[NewFeed(l) EXCEPT !.Items = its] :
                            l \in {LegacyURL, SmotrimURL}, its \in {<<>>, <<OldItem>>}},
                 page : PopulatePages]
    /\ ret = Nil
    /\ called = FALSE

CallPopulateFeed ==
    /\ ~called
    /\ ret' = populateFeed(args.feed, cleanText(args.page))
    /\ called' = TRUE
    /\ UNCHANGED <<args, pipelineVars>>

SpecPopulate == InitPopulate /\ [][CallPopulateFeed]_vars

(***************************************************************************)
(* Harness for the site dispatch: getFeed on a listing that answers from   *)
(* the requested or from a redirected address, and populateFeed called on  *)
(* its own with a feed link of any kind.  The pages mix legacy blocks and  *)
(* redesigned cards.                                                       *)
(***************************************************************************)
OtherURL == <<"https://", "127.0.0.1", "/brand/", "57083", "/", "episodes">>
PlainSmotrimURL == <<"http://", "smotrim.ru", "/brand/", "57083">>
BadURL == <<"https://", "smotrim.ru", "/brand/", "%zz">>
TwiceURL == <<"http://", "www.radiorus.ru", "/brand/", "57083", "/brand/", "episodes">>
NoBrandURL == <<"http://", "127.0.0.1">>

DispatchPages == PagesOf({H_sel}, {B_full, B_bare, Card1})

InitGetFeed ==
    \/ /\ url \in {LegacyURL, SmotrimURL}
       /\ served \in [status : {"ok"}, page : DispatchPages,
                       url : {url, SmotrimURL, PlainSmotrimURL, OtherURL}]
       /\ pc = "start"
       /\ feed = Nil /\ err = nil /\ wg = 0 /\ wgEp = 0 /\ idx = 0
       /\ feedTask = NoTask /\ epTask = <<>> /\ exited = FALSE
       /\ logbuf = {} /\ writes = {}
       /\ args = Nil /\ ret = Nil /\ called = FALSE
    \/ /\ PipelineIdle
       /\ args \in [feed : {NewFeed(l) : l \in {LegacyURL, SmotrimURL, PlainSmotrimURL,
                                                 OtherURL, BadURL, TwiceURL,
                                                 NoBrandURL}},
                    page : DispatchPages]
       /\ ret = Nil
       /\ called = FALSE

NextGetFeed == GetFeed \/ (pc = "idle" /\ CallPopulateFeed)

SpecGetFeed == InitGetFeed /\ [][NextGetFeed]_vars

(***************************************************************************)
(* Harness for describeFeed called on its own: wg.Add(1) and the call, on  *)
(* a feed whose Description is empty or already set.                       *)
(***************************************************************************)
InitDescribeFeed ==
    /\ url = <<>> /\ served = Nil /\ pc = "idle"
    /\ feed \in {[NewFeed(l) EXCEPT !.Title = <<"T">>, !.Description = d, !.Items = its] :
                    l \in {LegacyURL, SmotrimURL, PlainSmotrimURL, OtherURL},
                    d \in {<<>>, <<"About">>, <<"Old", " ", "text">>},
                    its \in {<<>>, <<OldItem>>}}
    /\ err = nil
    /\ wg = 1 /\ wgEp = 0 /\ idx = 0
    /\ feedTask = [pc |-> "fetch", url |-> <<>>, page |-> <<>>]
    /\ epTask = <<>>
    /\ exited = FALSE
    /\ logbuf = {} /\ writes = {}
    /\ args = Nil /\ ret = Nil /\ called = FALSE

NextDescribeFeed == FeedFetch \/ FeedDescribe \/ FeedDone

SpecDescribeFeed == InitDescribeFeed /\ [][NextDescribeFeed]_vars

(***************************************************************************)
(* Harness for processEpisodeDesc: detail pages whose three regions are    *)
(* each absent, blank, a text, or a text with blanks around it, in page    *)
(* order head, body, video or the reverse.                                 *)
(***************************************************************************)
Region(kind, word) ==
    {<<>>} \cup {<<Tok(kind, <<t>>)>> : t \in {<<" ">>, <<word>>, <<" ", word, " ">>}}

EpisodePages ==
    {a \o b \o v : a \in Region("ep_anons", "Anons"), b \in Region("ep_body", "Body"),
                   v \in Region("video", "Video")}
    \cup
    {v \o b \o a : a \in Region("ep_anons", "Anons"), b \in Region("ep_body", "Body"),
                   v \in Region("video", "Video")}

InitEpisodeDesc ==
    /\ PipelineIdle
    /\ args \in EpisodePages
    /\ ret = Nil
    /\ called = FALSE

CallProcessEpisodeDesc ==
    /\ ~called
    /\ ret' = processEpisodeDesc(args)
    /\ called' = TRUE
    /\ UNCHANGED <<args, pipelineVars>>

SpecEpisodeDesc == InitEpisodeDesc /\ [][CallProcessEpisodeDesc]_vars

(***************************************************************************)
(* cleanText on bytes.  Here a text is a sequence of single characters,    *)
(* so that a match can straddle the pieces an input is put together from   *)
(* and a replacement can sit next to the rest of an entity.                *)
(***************************************************************************)
Quot == <<"&", "q", "u", "o", "t", ";">>
Ndash == <<"&", "n", "d", "a", "s", "h", ";">>

\* slip: the first entity is replaced by an ampersand
substitutes_amp ==
    << [from |-> Quot, to |-> <<"&">>], [from |-> Ndash, to |-> <<"-">>] >>

substitutes ==
    << [from |-> Quot, to |-> <<"\"">>], [from |-> Ndash, to |-> <<"-">>] >>

\* regexp.ReplaceAll with a literal pattern: leftmost matches, not overlapping
RECURSIVE ReplaceAll(_, _, _)
ReplaceAll(b, from, to) ==
    IF Len(b) < Len(from) THEN b
    ELSE IF SubSeq(b, 1, Len(from)) = from
    THEN to \o ReplaceAll(SubSeq(b, Len(from) + 1, Len(b)), from, to)
    ELSE <<Head(b)>> \o ReplaceAll(Tail(b), from, to)

RECURSIVE cleanTextFrom(_, _)
cleanTextFrom(b, i) ==
    IF i > Len(substitutes) THEN b
    ELSE cleanTextFrom(ReplaceAll(b, substitutes[i].from, substitutes[i].to), i + 1)

cleanTextBytes(b) == cleanTextFrom(b, 1)

MaxChunks == 3

Chunks ==
    { Quot, Ndash, <<"&">>, <<"&", "q", "u">>, <<"o", "t", ";">>, <<"q", "u", "o", "t", ";">>,
      <<"&", "n", "d">>, <<"a", "s", "h", ";">>, <<"\"">>, <<"-">>, <<"x">> }

InitClean ==
    /\ PipelineIdle
    /\ args \in {Flatten(cs) : cs \in SeqsUpTo(Chunks, MaxChunks)}
    /\ ret = Nil
    /\ called = FALSE

CallCleanText ==
    /\ ~called
    /\ ret' = [n |-> 1, out |-> cleanTextBytes(args)]
    /\ called' = TRUE
    /\ UNCHANGED <<args, pipelineVars>>

RecallCleanText ==
    /\ called
    /\ ret.n = 1
    /\ ret' = [n |-> 2, out |-> cleanTextBytes(ret.out)]
    /\ UNCHANGED <<args, called, pipelineVars>>

NextClean == CallCleanText \/ RecallCleanText

SpecClean == InitClean /\ [][NextClean]_vars

(***************************************************************************)
(* Harness for parseDate.                                                  *)
(***************************************************************************)
FragSet ==
    { <<>>, <<"x">>, <<"2", "4">>, <<"1", "1">>, <<"2", "0", "1", "9">>,
      <<"1", "4">>, <<"1", "0">> }

DateInputs ==
    {<<>>} \cup {<<<<"m">>>> \o fs : fs \in SeqsUpTo(FragSet, MaxFrags)}

InitDate ==
    /\ PipelineIdle
    /\ args \in DateInputs
    /\ ret = Nil
    /\ called = FALSE

CallParseDate ==
    /\ ~called
    /\ ret' = parseDate(args)
    /\ called' = TRUE
    /\ UNCHANGED <<args, pipelineVars>>

SpecDate == InitDate /\ [][CallParseDate]_vars

(***************************************************************************)
(* Harness for episodeID: the function applied to a URL, then to its own   *)
(* result.                                                                 *)
(***************************************************************************)
MaxURL == 3

URLAtoms == {"http://", "https://", "www.radiorus.ru", "/brand/", "foo"}

InitID ==
    /\ PipelineIdle
    /\ args \in SeqsUpTo(URLAtoms, MaxURL)
    /\ ret = Nil
    /\ called = FALSE

CallEpisodeID ==
    /\ ~called
    /\ ret' = [n |-> 1, id |-> episodeID(args)]
    /\ called' = TRUE
    /\ UNCHANGED <<args, pipelineVars>>

RecallEpisodeID ==
    /\ called
    /\ ret.n = 1
    /\ ret' = [n |-> 2, id |-> episodeID(ret.id)]
    /\ UNCHANGED <<args, called, pipelineVars>>

NextID == CallEpisodeID \/ RecallEpisodeID

SpecID == InitID /\ [][NextID]_vars

(***************************************************************************)
(* Harness for parse.                                                      *)
(***************************************************************************)
BufTokens ==
    { [k |-> "h2", g |-> <<<<"A">>>>], [k |-> "h2", g |-> <<<<"B">>>>],
      [k |-> "h2", g |-> <<>>],
      [k |-> "promo", g |-> <<<<"p">>, <<"u">>>>],
      [k |-> "junk", g |-> <<>>] }

InitParse ==
    /\ PipelineIdle
    /\ args \in [src : SeqsUpTo(BufTokens, MaxBuf),
                 re : {Re(nm, k) : nm \in {"h2", "promo", "junk"}, k \in 0..MaxGroups},
                 n : 0..(MaxGroups + 1)]
    /\ ret = Nil
    /\ called = FALSE

CallParse ==
    /\ ~called
    /\ ret' = parse(args.src, args.re, args.n)
    /\ called' = TRUE
    /\ UNCHANGED <<args, pipelineVars>>

SpecParse == InitParse /\ [][CallParse]_vars

(***************************************************************************)
(* Properties of processURL.                                               *)
(***************************************************************************)
AllTasksDone ==
    /\ Len(epTask) = Len(feed.Items)
    /\ \A i \in 1..Len(epTask) : epTask[i].pc = "done"
    /\ feedTask.pc \in {"unlaunched", "done"}

\* C1: processURL returns only after the feed task, if launched, and every
\* episode task have run to completion, and the feed does not change once
\* processURL has returned.
C1_JoinBarrier ==
    /\ [](pc = "returned" => AllTasksDone)
    /\ [][pc = "returned" => feed' = feed]_vars

C1_Witness ==
    /\ pc = "returned"
    /\ Len(feed.Items) >= 2
    /\ feedTask.pc = "done"
    /\ \A i \in 1..Len(epTask) : epTask[i].pc = "done"

\* C2, as claimed: an episode fetch that fails never aborts the run.
C2_AsClaimed == \A i \in 1..Len(epTask) : epTask[i].pc = "fatal" => ~exited

HasDescription(page) ==
    \E i \in 1..Len(page) :
        /\ page[i].k \in {"ep_anons", "ep_body", "video"}
        /\ Len(page[i].g) >= 1
        /\ TrimSpace(page[i].g[1]) # <<>>

\* C2, amended: a detail page that is fetched but holds no description
\* leaves only its own item without Description, and processURL still
\* returns with every other item described; once the listing is parsed the
\* process ends early only through a fetch that fails in transport, and
\* such a failure, in any task, does end it.
C2_ExtractionFailureIsolated ==
    /\ (exited /\ pc # "fatal") =>
           \E l \in logbuf : l.msg = "fatal" /\ l.cause = "transport"
    /\ \A i \in 1..Len(epTask) : epTask[i].pc = "fatal" => (exited /\ pc # "returned")
    /\ pc = "returned" =>
           \A i \in 1..Len(feed.Items) :
               (feed.Items[i].Description # <<>>) <=> HasDescription(epTask[i].page)

C2_Witness ==
    /\ pc = "returned"
    /\ \E i, j \in 1..Len(feed.Items) :
           /\ ~HasDescription(epTask[i].page)
           /\ feed.Items[i].Description = <<>>
           /\ feed.Items[j].Description # <<>>

\* what the listing page shows, in page order: the link of every legacy
\* block, or on the redesigned site the href of every card that resolves
PageRefs ==
    LET page == served.page
        want == IF Hostname(served.url) = "smotrim.ru" THEN "card" ELSE "link"
        toks == SelectSeq(page, LAMBDA t : t.k = want /\ URLParseOK(t.g[1]))
    IN  [i \in 1..Len(toks) |-> toks[i].g[1]]

EndsWith(u, ref) ==
    /\ Len(u) >= Len(ref)
    /\ SubSeq(u, Len(u) - Len(ref) + 1, Len(u)) = ref

ItemsKept ==
    pc \in {"launch", "range", "wait", "returned"} =>
        /\ Len(feed'.Items) = Len(feed.Items)
        /\ \A i \in 1..Len(feed.Items) :
               /\ feed'.Items[i].Id = feed.Items[i].Id
               /\ feed'.Items[i].Link = feed.Items[i].Link

\* C3: once populateFeed has succeeded, Items list the episodes in page
\* order, and no step of the description phase changes the length of
\* Items or the Id and Link found at any position.
C3_ItemOrder ==
    /\ [](pc \in {"launch", "range", "wait", "returned"} =>
            /\ Len(feed.Items) = Len(PageRefs)
            /\ \A i \in 1..Len(feed.Items) : EndsWith(feed.Items[i].Link, PageRefs[i]))
    /\ [][ItemsKept]_vars

C3_Witness ==
    /\ pc = "returned"
    /\ Len(feed.Items) >= 2
    /\ feed.Items[1].Link # feed.Items[2].Link
    /\ feed.Items[2].Description # <<>>
    /\ feed.Items[1].Description = <<>>

\* C4: an episode task writes only Description and Created of its own item,
\* the feed task writes only Feed.Description, and no field is written by
\* two different tasks.
C4_WriteConfinement ==
    /\ \A w \in writes :
           IF w.by[1] = "ep"
           THEN w.obj = <<"item", w.by[2]>> /\ w.field \in {"Description", "Created"}
           ELSE w.obj = <<"feed", 0>> /\ w.field = "Description"
    /\ \A w1, w2 \in writes :
           (w1.obj = w2.obj /\ w1.field = w2.field) => w1.by = w2.by

C4_Witness ==
    /\ [by |-> <<"ep", 1>>, obj |-> <<"item", 1>>, field |-> "Created"] \in writes
    /\ [by |-> <<"ep", 2>>, obj |-> <<"item", 2>>, field |-> "Description"] \in writes
    /\ [by |-> <<"feed", 0>>, obj |-> <<"feed", 0>>, field |-> "Description"] \in writes

(***************************************************************************)
(* Properties of populateFeed.                                             *)
(***************************************************************************)
LinkCount(block) == Cardinality({i \in 1..Len(block) : block[i].k = "link"})

Blocks == findEpisodes(cleanText(args.page))

BadBlocks == {i \in 1..Len(Blocks) : LinkCount(Blocks[i]) # 1}

Legacy == parseSite(args.feed) # "smotrim.ru"

\* C5: on the legacy grammar, when the title is found, populateFeed returns
\* errBadEpisode exactly when some segmented block holds a number of link
\* matches other than one.
C5_BadEpisodeIff ==
    (called /\ Legacy /\ ret.err # errBadProgramme) =>
        ((ret.err = errBadEpisode) <=> (BadBlocks # {}))

C5_Witness ==
    /\ called /\ Legacy
    /\ ret.err = errBadEpisode
    /\ \A i \in BadBlocks : LinkCount(Blocks[i]) = 0
    /\ \E i \in 1..Len(Blocks) : LinkCount(Blocks[i]) = 1

\* C6, as claimed: when populateFeed returns errBadEpisode the Items are
\* what they were before the call.
C6_AsClaimed ==
    (called /\ ret.err = errBadEpisode) => ret.feed.Items = args.feed.Items

FirstBad == CHOOSE i \in BadBlocks : \A j \in BadBlocks : i <= j

BlockLink(b) == b[CHOOSE i \in 1..Len(b) : b[i].k = "link"].g[1]

\* C6, amended: when populateFeed returns errBadEpisode the Items are what
\* they were before the call followed by one item for each block that
\* precedes the first bad block, in page order; they are unchanged only
\* when the bad block is the first block.
C6_PrecedingBlocksAdded ==
    (called /\ ret.err = errBadEpisode) =>
        LET old == args.feed.Items
            new == ret.feed.Items
            k == FirstBad - 1
        IN  /\ Len(new) = Len(old) + k
            /\ SubSeq(new, 1, Len(old)) = old
            /\ \A i \in 1..k : EndsWith(new[Len(old) + i].Link, BlockLink(Blocks[i]))

C6_Witness ==
    /\ called
    /\ ret.err = errBadEpisode
    /\ args.feed.Items # <<>>
    /\ Len(ret.feed.Items) = Len(args.feed.Items) + 1
    /\ FirstBad = 2

FirstTitle == TrimSpace(SelText(cleanText(args.page), "seltitle"))

SecondTitle ==
    LET h == SelectSeq(cleanText(args.page), LAMBDA t : t.k = "h2")
    IN  IF h = <<>> \/ h[1].g = <<>> THEN <<>> ELSE stripLink(h[1].g[1])

\* C7, as claimed: populateFeed returns the "bad programme page" error
\* exactly when both title strategies leave the title empty, and a call
\* that returns without that error leaves a non-empty Title.
C7_AsClaimed ==
    called =>
        /\ (ret.err = errBadProgramme) <=> (FirstTitle = <<>> /\ SecondTitle = <<>>)
        /\ ret.err # errBadProgramme => ret.feed.Title # <<>>

(***************************************************************************)
(* Properties of the items' Id and Link.                                   *)
(***************************************************************************)
\* C11, as claimed: no two items of a feed populateFeed has filled have the
\* same Id, whatever the listing page.
C11_IdsUnique ==
    (called /\ ret.err = nil) =>
        \A i, j \in 1..Len(ret.feed.Items) :
            i # j => ret.feed.Items[i].Id # ret.feed.Items[j].Id

IsAbsolute(u) == Len(u) >= 2 /\ u[1] \in Schemes /\ u[2] # ""

Populated == pc \in {"launch", "range", "wait", "returned"}

\* C12, as claimed: on both grammars Id and Link are absolute URLs and Id is
\* the Link with https:// rewritten to http://.
C12_AsClaimed ==
    Populated =>
        \A i \in 1..Len(feed.Items) :
            /\ IsAbsolute(feed.Items[i].Id)
            /\ IsAbsolute(feed.Items[i].Link)
            /\ feed.Items[i].Id = episodeID(feed.Items[i].Link)

IdOfItem ==
    Populated =>
        \A i \in 1..Len(feed.Items) :
            LET it == feed.Items[i]
            IN  /\ IsAbsolute(it.Link)
                /\ IF Hostname(feed.Link) = "smotrim.ru"
                   THEN it.Link = <<feed.Link[1], feed.Link[2], "/audio/">> \o it.Id
                   ELSE /\ IsAbsolute(it.Id)
                        /\ it.Id[1] = "http://"
                        /\ Tail(it.Id) = Tail(it.Link)

IdKept ==
    Populated =>
        /\ Len(feed'.Items) = Len(feed.Items)
        /\ \A i \in 1..Len(feed.Items) : feed'.Items[i].Id = feed.Items[i].Id

\* C12, amended: on the legacy grammar Id and Link are absolute URLs and Id
\* is the Link with https:// rewritten to http://; on the redesigned grammar
\* Link is the card's href resolved against the feed link and Id is that
\* href without its leading /audio/, which is no URL; on both the Id never
\* changes during the description phase.
C12_IdByGrammar == []IdOfItem /\ [][IdKept]_vars

C12_Witness ==
    /\ pc = "returned"
    /\ Hostname(feed.Link) = "smotrim.ru"
    /\ Len(feed.Items) >= 1
    /\ feed.Items[1].Id = <<"1">>
    /\ feed.Items[1].Description # <<>>

StartsWith(u, scheme) == u # <<>> /\ Head(u) = scheme

\* C13: episodeID applied to its own result gives that result again; a URL
\* that starts with http:// comes back unchanged; a URL that starts with
\* https:// comes back with that prefix replaced by http:// and the rest as
\* it was.
C13_Idempotent ==
    called =>
        /\ ret.n = 2 => ret.id = episodeID(args)
        /\ StartsWith(args, "http://") => ret.id = args
        /\ StartsWith(args, "https://") =>
              /\ Len(ret.id) = Len(args)
              /\ ret.id[1] = "http://"
              /\ \A i \in 2..Len(args) : ret.id[i] = args[i]

C13_Witness ==
    /\ called
    /\ ret.n = 2
    /\ args = <<"https://", "https://", "foo">>
    /\ ret.id = <<"http://", "https://", "foo">>

NewItems == SubSeq(ret.feed.Items, Len(args.feed.Items) + 1, Len(ret.feed.Items))

DownloadURL == "https://audio.vgtrk.com/download?id="

\* C14, as claimed: every item populateFeed adds has an Enclosure that is
\* either empty in all fields or the download URL of a non-empty audio
\* identifier with Length 1024 and Type audio/mpeg, on both grammars.
C14_EnclosureShapes ==
    (called /\ ret.err = nil) =>
        \A i \in 1..Len(NewItems) :
            LET e == NewItems[i].Enclosure
            IN  \/ e = [Url |-> <<>>, Length |-> "", Type |-> ""]
                \/ /\ Len(e.Url) >= 2
                   /\ e.Url[1] = DownloadURL
                   /\ e.Length = "1024"
                   /\ e.Type = "audio/mpeg"

(***************************************************************************)
(* Properties of the cover image.                                          *)
(***************************************************************************)
Pictures(page) == SelectSeq(page, LAMBDA t : t.k = "img")

Promos(page) == SelectSeq(page, LAMBDA t : t.k = "promo")

NoPictures(page) == SelectSeq(page, LAMBDA t : t.k \notin {"img", "promo"})

ImageOf(page, link, before) ==
    IF Pictures(page) # <<>> /\ Pictures(page)[1].g # <<>>
    THEN [Link |-> link, Url |-> Pictures(page)[1].g[1], Title |-> Pictures(page)[1].g[2]]
    ELSE IF Promos(page) # <<>>
    THEN [Link |-> link, Url |-> Promos(page)[1].g[2], Title |-> Promos(page)[1].g[4]]
    ELSE before

\* C16: once the title is found, the Image is the src and title of the img
\* under the picture selector when that img has a src, else the URL and alt
\* text of the legacy promo header when the page has one, else what it was
\* before the call; and the image never decides the error: populateFeed
\* returns the error it returns on the same page without any image.
C16_ImageFallback ==
    (called /\ ret.err # errBadProgramme) =>
        /\ ret.feed.Image = ImageOf(args.page, args.feed.Link, args.feed.Image)
        /\ ret.err = populateFeed(args.feed, cleanText(NoPictures(args.page))).err

C16_Witness ==
    /\ called
    /\ ret.err = nil
    /\ Pictures(args.page) # <<>>
    /\ Pictures(args.page)[1].g = <<>>
    /\ Promos(args.page) # <<>>
    /\ ret.feed.Image.Url = <<"old.jpg">>
    /\ Len(ret.feed.Items) > Len(args.feed.Items)

(***************************************************************************)
(* Properties of the site dispatch.                                        *)
(***************************************************************************)
Count(page, kind) == Len(SelectSeq(page, LAMBDA t : t.k = kind))

Redesigned(link) == URLParseOK(link) /\ Len(link) >= 2 /\ link[2] = "smotrim.ru"

\* the items are those of the cards on the redesigned grammar, those of the
\* blocks on the legacy one
ItemsOfGrammar(f, page) ==
    IF Redesigned(f.Link)
    THEN /\ Len(f.Items) = Count(page, "card")
         /\ \A i \in 1..Len(f.Items) : f.Items[i].Title = <<"C">>
    ELSE /\ Len(f.Items) = Count(page, "open")
         /\ \A i \in 1..Len(f.Items) : f.Items[i].Title # <<"C">>

\* C15: the feed getFeed builds has the address the listing was answered
\* from as its Link, and its items are extracted with the redesigned grammar
\* exactly when that link parses as a URL with hostname smotrim.ru; any other
\* hostname, and a link that does not parse, gives the legacy grammar.
C15_SiteDispatch ==
    /\ pc = "launch" => /\ feed.Link = served.url
                        /\ ItemsOfGrammar(feed, served.page)
    /\ pc # "fatal"
    /\ called => /\ ret.err = nil
                 /\ ret.feed.Link = args.feed.Link
                 /\ ItemsOfGrammar(ret.feed, args.page)

C15_Witness ==
    /\ pc = "launch"
    /\ url = LegacyURL
    /\ feed.Link = SmotrimURL
    /\ Count(served.page, "open") = 1
    /\ Len(feed.Items) = 1
    /\ feed.Items[1].Id = <<"1">>

(***************************************************************************)
(* Properties of the programme description.                                *)
(***************************************************************************)
FeedDescFails ==
    /\ feedTask.pc = "describe"
    /\ feedTask'.pc = "deferred"
    /\ processFeedDesc(feedTask.page).err # nil

DescriptionKept ==
    FeedDescFails =>
        /\ feed'.Description = feed.Description
        /\ Log("could not find programme description on page", aboutURL(feed), errCantParse)
               \in logbuf'
        /\ ~exited'

ParsedAbout == parseText(cleanText(served.page), "about").title

PastLaunch == pc \in {"range", "wait", "returned"}

FeedTaskRunning == feedTask.pc \in {"fetch", "describe", "deferred", "fatal"}

\* C18: once processURL is past its test of the Description, the about-page
\* task has been launched exactly when the programme parser left the
\* Description empty.  When it filled it, no about page is ever fetched and
\* the Description keeps the parsed text through the concurrent phase; when
\* it did not, one task is launched: the wait group counts one while it runs
\* and zero once it is done.
C18_LaunchIffEmpty ==
    /\ wg = IF FeedTaskRunning THEN 1 ELSE 0
    /\ ~PastLaunch => feedTask = NoTask
    /\ PastLaunch =>
          /\ (feedTask.pc # "unlaunched") <=> (ParsedAbout = <<>>)
          /\ ParsedAbout # <<>> =>
                /\ feedTask = NoTask
                /\ feed.Description = ParsedAbout
                /\ \A l \in logbuf : l.url # aboutURL(feed)

C18_Witness ==
    /\ pc = "returned"
    /\ feedTask = NoTask
    /\ feed.Description = <<"About">>
    /\ Len(feed.Items) = 2
    /\ \A i \in 1..2 : epTask[i].pc = "done"

(***************************************************************************)
(* Properties of the episode description.                                  *)
(***************************************************************************)
RegionText(kind) ==
    LET ts == SelectSeq(args, LAMBDA t : t.k = kind)
    IN  IF ts = <<>> THEN <<>> ELSE ts[1].g[1]

Blank == "\n\n"

Joined(parts) ==
    LET ps == SelectSeq(parts, LAMBDA x : x # <<>>)
    IN  IF Len(ps) = 0 THEN <<>>
        ELSE IF Len(ps) = 1 THEN ps[1]
        ELSE IF Len(ps) = 2 THEN ps[1] \o <<Blank>> \o ps[2]
        ELSE ps[1] \o <<Blank>> \o ps[2] \o <<Blank>> \o ps[3]

\* C19, as claimed: the description is the non-empty texts of the head, the
\* body and the video region, in that order, joined by a blank line, and the
\* result is errCantParse with an empty description exactly when all three
\* texts are empty.
C19_AsClaimed ==
    called =>
        LET parts == <<RegionText("ep_anons"), RegionText("ep_body"), RegionText("video")>>
        IN  /\ ret.desc = Joined(parts)
            /\ (ret.err = errCantParse) <=> (\A i \in 1..3 : parts[i] = <<>>)
            /\ ret.err # nil => ret.desc = <<>>

\* C19, amended: the same with the text of the video region taken without
\* the blanks around it, the head and the body texts as they stand; the
\* result is errCantParse with an empty description exactly when the head
\* and the body texts are empty and the video text is empty or blank.
C19_VideoTrimmed ==
    called =>
        LET parts == <<RegionText("ep_anons"), RegionText("ep_body"),
                       TrimSpace(RegionText("video"))>>
        IN  /\ ret.desc = Joined(parts)
            /\ (ret.err = errCantParse) <=> (\A i \in 1..3 : parts[i] = <<>>)
            /\ ret.err \in {nil, errCantParse}
            /\ ret.err # nil => ret.desc = <<>>

C19_Witness ==
    /\ called
    /\ Len(args) = 3
    /\ args[1].k = "video"
    /\ RegionText("ep_anons") = <<" ">>
    /\ RegionText("ep_body") = <<"Body">>
    /\ RegionText("video") = <<" ", "Video", " ">>
    /\ ret.desc = <<" ", Blank, "Body", Blank, "Video">>

Described(i) == epTask[i].pc \in {"date", "deferred", "done"}

Pending == {i \in 1..Len(epTask) : epTask[i].pc # "done"}

MissingLogged ==
    \A i \in 1..Len(epTask) :
        (Described(i) /\ ~HasDescription(epTask[i].page)) =>
            /\ Log("could not find episode description on page",
                   feed.Items[epTask[i].item].Link, errCantParse) \in logbuf
            /\ feed.Items[epTask[i].item].Description = <<>>

DoneOnce ==
    \A i \in 1..Len(epTask) :
        /\ epTask[i].pc = "done" => epTask'[i].pc = "done"
        /\ (epTask[i].pc # "done" /\ epTask'[i].pc = "done") => wgEp' = wgEp - 1

\* C20: an episode task whose detail page was fetched and holds no
\* description region has logged "could not find episode description on
\* page", the item's link and errCantParse, and its item's Description is
\* empty; every task, this one included, takes one off the wait group when
\* it ends and never again, so the wait group counts the tasks not yet done
\* and the join opens when all are.
C20_MissingEpisodeLogged ==
    /\ [](MissingLogged /\ wgEp = Cardinality(Pending))
    /\ [][DoneOnce]_vars

C20_Witness ==
    /\ pc = "returned"
    /\ wgEp = 0
    /\ Len(epTask) = 2
    /\ epTask[1].page = D_none
    /\ epTask[1].pc = "done"
    /\ feed.Items[1].Description = <<>>
    /\ \E l \in logbuf : l.cause = errCantParse /\ l.url = feed.Items[1].Link

(***************************************************************************)
(* Properties of parseDate.                                                *)
(***************************************************************************)
Numeric(fs) == \A i \in 1..Len(fs) : AtoiOK(fs[i])

Val(fs, i) == IF i <= Len(fs) THEN AtoiVal(fs[i]) ELSE 0

\* C8, as claimed: with a whole match and at most five fragments, fewer than
\* four fragments or a non-numeric fragment give the sentinel, and five
\* numeric fragments give that date.
C8_AsClaimed ==
    (called /\ Len(args) >= 1 /\ Len(args) <= 6) =>
        LET fs == Tail(args)
        IN  /\ (Len(fs) < 4 \/ ~Numeric(fs)) => ret = Sentinel
            /\ (Len(fs) = 5 /\ Numeric(fs)) =>
                   ret = TimeDate(Val(fs, 3), Val(fs, 2), Val(fs, 1), Val(fs, 4), Val(fs, 5))

\* C8, amended: with a whole match and at most five fragments, fewer than
\* THREE fragments or a non-numeric fragment give the sentinel; three, four
\* or five numeric fragments give day, month, year and the hour and minute
\* that are present, a missing hour or minute counting as 0.
C8_ParseDateReference ==
    (called /\ Len(args) >= 1 /\ Len(args) <= 6) =>
        LET fs == Tail(args)
        IN  IF Len(fs) < 3 \/ ~Numeric(fs)
            THEN ret = Sentinel
            ELSE ret = TimeDate(Val(fs, 3), Val(fs, 2), Val(fs, 1), Val(fs, 4), Val(fs, 5))

C8_Witness ==
    /\ called
    /\ args = << <<"m">>, <<"2", "4">>, <<"1", "1">>, <<"2", "0", "1", "9">>, <<"1", "4">>, <<"1", "0">> >>
    /\ ret = TimeDate(2019, 11, 24, 14, 10)

\* C9, as claimed: parseDate returns a timestamp for every input, of any
\* length, and never aborts.
C9_Total == called => ret # Panic

(***************************************************************************)
(* Properties of parse.                                                    *)
(***************************************************************************)
Hits(src, re) == {i \in 1..Len(src) : src[i].k = re.name}

FirstHit(src, re) == CHOOSE i \in Hits(src, re) : \A j \in Hits(src, re) : i <= j

GroupOf(t, i) == IF i <= Len(t.g) THEN t.g[i] ELSE <<>>

\* C10: parse returns exactly n groups; it fails with errCantParse exactly
\* when nothing matches or the pattern does not have n capture groups, and
\* then every group is empty; otherwise it returns the groups of the first
\* match, also when there are several matches.
C10_FixedArity ==
    called =>
        LET src == args.src
            re == args.re
            n == args.n
            supplied == Hits(src, re) # {} /\ re.groups = n
        IN  /\ Len(ret.out) = n
            /\ (ret.err = errCantParse) <=> ~supplied
            /\ ret.err \in {errCantParse, nil}
            /\ ~supplied => \A i \in 1..n : ret.out[i] = <<>>
            /\ supplied => \A i \in 1..n : ret.out[i] = GroupOf(src[FirstHit(src, re)], i)

C10_Witness ==
    /\ called
    /\ Cardinality(Hits(args.src, args.re)) >= 2
    /\ args.n = 1
    /\ ret.err = nil
    /\ ret.out[1] = <<"A">>
    /\ \E i \in Hits(args.src, args.re) : args.src[i].g # <<<<"A">>>>

(***************************************************************************)
(* Properties of the items' dates.                                         *)
(***************************************************************************)
\* C21, as claimed: once processURL has returned, no item's Created is the
\* unset timestamp: it is a parsed date or the sentinel, on the redesigned
\* grammar too.
C21_SentinelOrParsed ==
    pc = "returned" =>
        \A i \in 1..Len(feed.Items) : feed.Items[i].Created # ZeroTime

Has(block, kind) == \E j \in 1..Len(block) : block[j].k = kind

Garbled(block) ==
    \E j \in 1..Len(block) :
        /\ block[j].k = "date"
        /\ \E f \in 1..Len(block[j].g) : \E c \in 1..Len(block[j].g[f]) :
               block[j].g[f][c] \notin Digits

\* C22: on the legacy grammar, when the title is found and every block holds
\* exactly one link, populateFeed returns no error and appends one item per
\* block; the item of a block without a title has Title "", that of a block
\* without an audio marker has the empty Enclosure, and that of a block
\* without a date line, or with a date line holding something other than
\* digits, has the sentinel date.
C22_FieldFailuresKept ==
    (called /\ Legacy /\ ret.err # errBadProgramme /\ BadBlocks = {}) =>
        /\ ret.err = nil
        /\ Len(NewItems) = Len(Blocks)
        /\ \A i \in 1..Len(Blocks) :
              /\ ~Has(Blocks[i], "etitle") => NewItems[i].Title = <<>>
              /\ ~Has(Blocks[i], "audio") =>
                     NewItems[i].Enclosure = [Url |-> <<>>, Length |-> "", Type |-> ""]
              /\ (~Has(Blocks[i], "date") \/ Garbled(Blocks[i])) =>
                     NewItems[i].Created = TimeDate(1970, 1, 1, 0, 0)

C22_Witness ==
    /\ called
    /\ Legacy
    /\ ret.err = nil
    /\ Len(Blocks) = 2
    /\ Garbled(Blocks[1])
    /\ ~Has(Blocks[2], "etitle") /\ ~Has(Blocks[2], "audio") /\ ~Has(Blocks[2], "date")
    /\ Len(NewItems) = 2
    /\ NewItems[1].Created = Sentinel
    /\ NewItems[2].Title = <<>>

(***************************************************************************)
(* Properties of the fatal exit of getFeed.                                *)
(***************************************************************************)
StructuralFailure == err \in {errBadProgramme, errBadEpisode}

AbortedAtOnce ==
    StructuralFailure =>
        /\ pc = "fatal"
        /\ exited
        /\ Log("could not process", served.url, err) \in logbuf
        /\ feedTask = NoTask
        /\ epTask = <<>>
        /\ wg = 0 /\ wgEp = 0
        /\ writes = {}

NothingAfterExit == exited => UNCHANGED vars

\* C23: when populateFeed fails inside getFeed with a bad programme page or
\* a bad episode, the process has ended with the message "could not
\* process", the listing's address and the cause; no description task has
\* been launched, no field has been written by a task, and nothing happens
\* afterwards: processURL never returns a feed.
C23_StructuralFailureAborts == []AbortedAtOnce /\ [][NothingAfterExit]_vars

C23_Witness ==
    /\ err = errBadEpisode
    /\ pc = "fatal"
    /\ feed # Nil
    /\ Len(feed.Items) = 1

(***************************************************************************)
(* Properties of cleanText.                                                *)
(***************************************************************************)
Occurs(pat, b) ==
    \E i \in 1..Len(b) : i + Len(pat) - 1 <= Len(b) /\ SubSeq(b, i, i + Len(pat) - 1) = pat

FirstPass(b) == ReplaceAll(ReplaceAll(b, Quot, <<"\"">>), Ndash, <<"-">>)

\* C24: cleanText always returns; its result holds neither entity any more,
\* and a second application returns what the first returned.
C24_CleanTextIdempotent ==
    called =>
        /\ ~Occurs(Quot, ret.out)
        /\ ~Occurs(Ndash, ret.out)
        /\ ret.out = FirstPass(args)

C24_Witness ==
    /\ called
    /\ ret.n = 2
    /\ args = <<"&">> \o Quot \o <<"q", "u", "o", "t", ";">>
    /\ ret.out = <<"&", "\"", "q", "u", "o", "t", ";">>

(***************************************************************************)
(* Properties of the legacy episode links.                                 *)
(***************************************************************************)
BrandAt(u) == {i \in 1..Len(u) : u[i] = "/brand/"}

UpToBrand(u) ==
    IF BrandAt(u) = {} THEN u \o <<"/brand/">>
    ELSE SubSeq(u, 1, CHOOSE i \in BrandAt(u) : \A j \in BrandAt(u) : i <= j)

LinksFromPrefix(f, page) ==
    LET blocks == findEpisodes(page)
    IN  /\ Len(f.Items) = Len(blocks)
        /\ \A i \in 1..Len(blocks) :
               f.Items[i].Link = UpToBrand(f.Link) \o BlockLink(blocks[i])

\* C25: on the legacy grammar every item's Link is the feed's link up to
\* and including its first "/brand/" (the whole link and "/brand/" when it
\* has none), followed by the relative path captured from the item's block.
C25_LegacyLinks ==
    /\ (pc = "launch" /\ ~Redesigned(feed.Link)) => LinksFromPrefix(feed, served.page)
    /\ (called /\ ~Redesigned(args.feed.Link)) => LinksFromPrefix(ret.feed, args.page)

C25_Witness ==
    /\ called
    /\ args.feed.Link = TwiceURL
    /\ Len(ret.feed.Items) = 2
    /\ ret.feed.Items[2].Link = <<"http://", "www.radiorus.ru", "/brand/", "57083", "/episode/", "b">>

(***************************************************************************)
(* Properties of the about-page address.                                   *)
(***************************************************************************)
\* C26, as claimed: the address the feed-description task fetches is the
\* feed's link with its last path segment replaced by "about", for every
\* link on which the task is launched.
C26_AboutURL ==
    feedTask.pc \in {"describe", "deferred", "done", "fatal"} =>
        feedTask.url = SubSeq(feed.Link, 1, Len(feed.Link) - 1) \o <<"about">>

(***************************************************************************)
(* Termination of the concurrent phase.                                    *)
(***************************************************************************)
Stuck == feedTask.pc = "hung" \/ \E i \in 1..Len(epTask) : epTask[i].pc = "hung"

\* nothing will move any more: the process has ended, or processURL has
\* returned, or some fetch hangs while every item has its task and every
\* other task has run to its end
Settled ==
    \/ exited
    \/ pc = "returned"
    \/ /\ pc = "range"
       /\ Stuck
       /\ Len(epTask) = Len(feed.Items)
       /\ \A i \in 1..Len(epTask) : epTask[i].pc \in {"hung", "done"}
       /\ feedTask.pc \in {"unlaunched", "hung", "done"}
    \/ /\ pc = "wait"
       /\ feedTask.pc = "hung"
       /\ \A i \in 1..Len(epTask) : epTask[i].pc = "done"

HungForEver ==
    /\ feedTask.pc = "hung" => feedTask'.pc = "hung"
    /\ \A i \in 1..Len(epTask) : epTask[i].pc = "hung" => epTask'[i].pc = "hung"

\* C27: processURL returns only when no fetch is left unanswered, and a
\* fetch that does not answer never does later, so one such fetch keeps
\* processURL from returning for ever; once getFeed has returned, the run
\* settles: the process is ended by a failed fetch, or processURL returns
\* (every fetch has answered), or some fetch hangs, and then every item has
\* had its task launched and every task but the hung ones has run to its
\* end, its writes made.
C27_Termination ==
    /\ [](pc = "returned" => ~Stuck /\ ~exited)
    /\ [][HungForEver]_vars
    /\ [](pc = "launch" => <>[]Settled)

C27_Witness ==
    /\ pc = "range"
    /\ Len(epTask) = 2
    /\ epTask[1].pc = "hung"
    /\ epTask[2].pc = "done"
    /\ feed.Items[2].Description # <<>>
    /\ feedTask.pc = "done"
    /\ ~exited

(***************************************************************************)
(* Properties of getFeed's single attempt.                                 *)
(***************************************************************************)
SingleAttempt ==
    /\ pc # "start" => pc' # "start"
    /\ feed # Nil => (feed'.Link = feed.Link /\ feed'.Title = feed.Title)
    /\ (pc = "start" /\ pc' # "start") =>
          /\ served' = served
          /\ err' = errBadEpisode => (pc' = "fatal" /\ exited')
    /\ pc = "fatal" => UNCHANGED vars

\* C28: getFeed is left once and never entered again; the listing answer it
\* works on is the one fetch of the run; a bad-episode result takes it
\* straight to the fatal exit, after which nothing happens: no second fetch
\* and no second populateFeed on the feed.
C28_SingleAttempt ==
    /\ [][SingleAttempt]_vars
    /\ [](err = errBadEpisode =>
             /\ pc = "fatal"
             /\ logbuf = {Log("could not process", served.url, errBadEpisode)})

C28_Witness ==
    /\ pc = "fatal"
    /\ exited
    /\ err = errBadEpisode
    /\ Len(feed.Items) = 0
    /\ Count(served.page, "open") = 2

(***************************************************************************)
(* Properties of the legacy dates in the description phase.                *)
(***************************************************************************)
LegacyFeed == Populated /\ ~Redesigned(feed.Link)

CreatedKept ==
    LegacyFeed =>
        \A i \in 1..Len(feed.Items) : feed'.Items[i].Created = feed.Items[i].Created

\* C29, as claimed: no item of the legacy grammar has the unset timestamp,
\* so no task ever writes the Created of a legacy item: it is the same
\* before and after the description phase.
C29_LegacyDatesFrozen ==
    /\ [](LegacyFeed =>
             /\ \A i \in 1..Len(feed.Items) : ~IsZero(feed.Items[i].Created)
             /\ \A w \in writes : w.field # "Created")
    /\ [][CreatedKept]_vars


(***************************************************************************)
(* Properties of the historical retry loop.                                *)
(***************************************************************************)
Accepted == retryPopulateFeed(NewFeed(url), cleanText(served.page)).feed.Items

DistinctIds(items) ==
    \A i, j \in 1..Len(items) : items[i].Id = items[j].Id => i = j

RetrySucceeded == pc = "returned" /\ idx > 1

\* C30, as claimed: once a retry has succeeded the feed holds each episode of
\* the accepted page exactly once, in page order, with Ids as distinct as the
\* page's own; nothing of an abandoned pass is retained.
C30_RetryKeepsNothing ==
    RetrySucceeded =>
        /\ feed.Items = Accepted
        /\ DistinctIds(Accepted) => DistinctIds(feed.Items)

====
